---- MODULE Spec2Model ----
(***************************************************************************)
(* Model of the MILP_Solver text front end (src/src/parser.cpp) and of the *)
(* part of GLPKSolver::loadModel that consumes the parsed model           *)
(* (src/src/solver.cpp).                                                   *)
(*                                                                         *)
(* A std::string is a sequence of one-character strings.  A number text is *)
(* rounded to the nearest IEEE double as strtod rounds it; a double d is   *)
(* kept as its fixed-point image, the largest integer k with               *)
(* double(k / 10^MaxFrac) <= d; a finite magnitude of 10^MaxDigits or more *)
(* is Huge, +/-infinity are INFINITY and -INFINITY, a NaN is NaN.          *)
(* The input file is read one line per step of the while loop of           *)
(* Parser::parseFile; the lines are drawn from the finite set Lines, at    *)
(* most MaxLines of them (Spec).  ReaderSpec applies parseTerm and         *)
(* parseExpression on their own to one text each.                          *)
(***************************************************************************)
EXTENDS Integers, Sequences, FiniteSets, TLC

\* ------------------------------------------------------------------ bounds
\* Number of input lines a modelled file may hold.
MaxLines == 5
\* Number of fractional decimal digits kept by the fixed-point doubles.
MaxFrac == 1
\* Number of integer decimal digits kept by the fixed-point doubles.
MaxDigits == 6

\* std::numeric_limits<double>::infinity(), larger than every finite value
\* of the fixed-point doubles.
INFINITY == 2000000000

\* ------------------------------------------------------- character classes
DigitChars == <<"0", "1", "2", "3", "4", "5", "6", "7", "8", "9">>
Digit == {DigitChars[i] : i \in 1..10}
Lower == {"a", "b", "c", "d", "e", "f", "g", "h", "i", "j", "k", "l", "m",
          "n", "o", "p", "q", "r", "s", "t", "u", "v", "w", "x", "y", "z"}
Upper == {"A", "B", "C", "D", "E", "F", "G", "H", "I", "J", "K", "L", "M",
          "N", "O", "P", "Q", "R", "S", "T", "U", "V", "W", "X", "Y", "Z"}
\* [a-zA-Z_]
IdentStart == Lower \cup Upper \cup {"_"}
\* [a-zA-Z0-9_], also the regex class \w
IdentChar == IdentStart \cup Digit
\* [+-]
Sign == {"+", "-"}
\* the characters trim() strips: " \t\r\n"
TrimWs == {" ", "\t", "\r", "\n"}
\* the regex class \s and the isspace() characters skipped by stod: space,
\* \t, \r, \n, \f and the vertical tab 0x0B, written as the character itself
RegexWs == {" ", "\t", "\r", "\n", "\f", ""}

\* ------------------------------------------------------------ string tools
\* first index j >= i with s[j] \notin C, or Len(s)+1: a greedy C* from i
SkipWhile(s, i, C) ==
  IF i > Len(s) THEN i
  ELSE IF \A j \in i..Len(s) : s[j] \in C THEN Len(s) + 1
  ELSE CHOOSE j \in i..Len(s) : s[j] \notin C /\ \A k \in i..(j - 1) : s[k] \in C

\* a greedy optional single character c? at i
SkipOpt(s, i, C) == IF i <= Len(s) /\ s[i] \in C THEN i + 1 ELSE i

\* last index j <= i with s[j] \notin C, or 0
SkipBack(s, i, C) ==
  IF i < 1 THEN i
  ELSE IF \A j \in 1..i : s[j] \in C THEN 0
  ELSE CHOOSE j \in 1..i : s[j] \notin C /\ \A k \in (j + 1)..i : s[k] \in C

\* s.substr(i) in 1-based indexing
From(s, i) == SubSeq(s, i, Len(s))

\* s.rfind(p, 0) == 0
StartsWith(s, p) == Len(s) >= Len(p) /\ SubSeq(s, 1, Len(p)) = p

\* s.find(p): the 1-based index of the first occurrence of p, 0 for npos
Find(s, p) ==
  LET hits == {i \in 1..(Len(s) - Len(p) + 1) : SubSeq(s, i, i + Len(p) - 1) = p}
  IN IF hits = {} THEN 0 ELSE CHOOSE i \in hits : \A j \in hits : i <= j

trim(s) ==
  LET start == SkipWhile(s, 1, TrimWs)
      end == SkipBack(s, Len(s), TrimWs)
  IN IF start > Len(s) THEN <<>> ELSE SubSeq(s, start, end)

isBlank(s) == trim(s) = <<>>

RECURSIVE split(_, _)
\* getline(ss, item, delimiter) until the stream is exhausted, each item trimmed
split(s, delimiter) ==
  IF s = <<>> THEN <<>>
  ELSE LET d == Find(s, <<delimiter>>)
       IN IF d = 0 THEN <<trim(s)>>
          ELSE <<trim(SubSeq(s, 1, d - 1))>> \o split(From(s, d + 1), delimiter)

\* ------------------------------------------------------------------ doubles
Pow10(n) == 10 ^ n

\* the fixed-point image of the integer k
Num(k) == k * Pow10(MaxFrac)

DigitVal(c) == (CHOOSE i \in 1..10 : DigitChars[i] = c) - 1

RECURSIVE DigitsVal(_)
DigitsVal(s) ==
  IF s = <<>> THEN 0
  ELSE 10 * DigitsVal(SubSeq(s, 1, Len(s) - 1)) + DigitVal(s[Len(s)])

\* s with its first n digits, right-padded with zeros; <<>> for n <= 0
Padded(s, n) == [i \in 1..n |-> IF i <= Len(s) THEN s[i] ELSE "0"]

\* s without its leading zeros
StripZeros(s) == From(s, SkipWhile(s, 1, {"0"}))

\* tolower() on the letters, as strtod reads "inf", "nan", 0x, e and p in
\* either case
AlphaLower == <<"a", "b", "c", "d", "e", "f", "g", "h", "i", "j", "k", "l", "m",
                "n", "o", "p", "q", "r", "s", "t", "u", "v", "w", "x", "y", "z">>
AlphaUpper == <<"A", "B", "C", "D", "E", "F", "G", "H", "I", "J", "K", "L", "M",
                "N", "O", "P", "Q", "R", "S", "T", "U", "V", "W", "X", "Y", "Z">>
ToLower(c) ==
  IF \E i \in 1..26 : AlphaUpper[i] = c
  THEN AlphaLower[CHOOSE i \in 1..26 : AlphaUpper[i] = c]
  ELSE c
LowerCase(s) == [i \in 1..Len(s) |-> ToLower(s[i])]

\* the hexadecimal digits of a case-folded text and their values
HexChars == <<"0", "1", "2", "3", "4", "5", "6", "7", "8", "9",
              "a", "b", "c", "d", "e", "f">>
HexDigit == {HexChars[i] : i \in 1..16}
HexVal(c) == (CHOOSE i \in 1..16 : HexChars[i] = c) - 1

Pow2(n) == 2 ^ n

\* the four bits of every hexadecimal digit of h, most significant first
HexBits(h) ==
  [i \in 1..(4 * Len(h)) |->
     (HexVal(h[(i + 3) \div 4]) \div Pow2(3 - ((i - 1) % 4))) % 2]

RECURSIVE BitsVal(_)
BitsVal(b) ==
  IF b = <<>> THEN 0 ELSE 2 * BitsVal(SubSeq(b, 1, Len(b) - 1)) + b[Len(b)]

\* the number of binary digits of n < 2^30, and the digits, most significant
\* first
BitLen(n) == CHOOSE w \in 0..30 : n < Pow2(w) /\ (w = 0 \/ n >= Pow2(w - 1))
BitsOf(n, w) == SubSeq([i \in 1..w |-> (n \div Pow2(w - i)) % 2], 1, w)

\* the largest magnitude kept exactly: a finite double of MaxDigits or fewer
\* integer digits has its own value, every larger finite double has the
\* value Huge, which stays below INFINITY
Huge == Pow10(MaxDigits + MaxFrac)

\* a quiet NaN, which strtod returns for "nan"
NaN == INFINITY + 1

\* ---------------------------------------------- decimal fractions, in limbs
\* the digits fd of the decimal fraction 0.fd in groups of seven, the last
\* group right-padded with zeros
Limbs(fd) ==
  SubSeq([i \in 1..((Len(fd) + 6) \div 7) |->
            DigitsVal(Padded(SubSeq(fd, 7 * i - 6, Len(fd)), 7))],
         1, (Len(fd) + 6) \div 7)

\* the fraction part of p times the fraction l, for p a power of two up to
\* 2^7: no carry runs through a group, as p divides 10^7
ShiftLimbs(l, p) ==
  SubSeq([i \in 1..Len(l) |->
            ((l[i] * p) % Pow10(7))
            + (IF i < Len(l) THEN (l[i + 1] * p) \div Pow10(7) ELSE 0)],
         1, Len(l))

\* the integer part of 2^7 times the fraction l, as seven bits
CarryBits(l) == IF l = <<>> THEN BitsOf(0, 7) ELSE BitsOf((l[1] * Pow2(7)) \div Pow10(7), 7)

RECURSIVE Expand(_, _, _)
\* the first 7n binary digits of the fraction l, after the bits acc, and the
\* fraction that is left behind them; the digits end where nothing is left
Expand(l, n, acc) ==
  IF n = 0 \/ \A i \in 1..Len(l) : l[i] = 0 THEN [bits |-> acc, rest |-> l]
  ELSE Expand(ShiftLimbs(l, Pow2(7)), n - 1, acc \o CarryBits(l))

\* 0.a < 0.b for two fractions in groups of seven digits
LimbsLess(a, b) ==
  LET n == IF Len(a) > Len(b) THEN Len(a) ELSE Len(b)
      la(i) == IF i <= Len(a) THEN a[i] ELSE 0
      lb(i) == IF i <= Len(b) THEN b[i] ELSE 0
  IN \E i \in 1..n : la(i) < lb(i) /\ \A j \in 1..(i - 1) : la(j) = lb(j)

\* the decimal digits, in groups of seven, of 2^1024 - 2^970, from which a
\* text rounds to infinity (ERANGE), and of 2^-1022 - 2^-1076, below which a
\* text rounds to less than the smallest normal double; the first has 309
\* integer digits, the second 307 zeros between the point and its digits
DoubleMaxDigits ==
  <<1797693, 1348623, 1580793, 7289714, 530341, 5079934, 1327100,
    3782693, 6173778, 9804449, 6829276, 4750946, 6490179, 7758720,
    7096330, 2864166, 9288791, 946555, 5478519, 4040263, 657488,
    6715058, 2068190, 8902000, 7083836, 7627385, 4845817, 7115317,
    6447573, 270069, 8555713, 6695962, 2842914, 8198608, 3493647,
    5292719, 741684, 4436551, 704342, 7115596, 9950809, 3042880,
    1779041, 7449779, 2000000>>
DoubleMinDigits ==
  <<2225073, 8585072, 125957, 3821257, 207680, 2007701, 7763406,
    9887392, 8837676, 3306013, 3284174, 9757068, 5406341, 4603230,
    5423910, 8249322, 377160, 5601126, 300124, 273771, 9183479,
    6392769, 7214370, 7899083, 6532798, 9044318, 4986473, 2504110,
    4672730, 8469697, 7812028, 7162365, 5696793, 5895657, 3518682,
    278872, 2494811, 5301513, 1761636, 6333296, 9459534, 3136922,
    2190308, 537876, 9494041, 1743707, 8098225, 8074098, 8880551,
    6179071, 1900214, 8759401, 9158921, 5148208, 1924890, 2633127,
    225732, 1184750, 7718614, 5222409, 6212631, 6986236, 3877686,
    141838, 611657, 226377, 6640907, 6481944, 3553605, 4336373,
    7279780, 1459310, 678660, 4921175, 1678490, 8521511, 1597673,
    7332333, 9191983, 2213268, 5351912, 8338784, 8919133, 8071553,
    2840971, 38789, 9362724, 686726, 6633976, 914983, 4349831,
    3448796, 7665346, 9091559, 1301898, 9911452, 1124782, 3805473,
    4100977, 5590676, 962915, 8594969, 7743018, 9308113, 8586927,
    2811532, 9373395, 704336, 1663818, 3593750>>

\* --------------------------------------------------- rounding to a double
\* a finite nonzero double is [mant, exp]: the value 0.mant * 2^exp, mant
\* being at most 53 bits that start and end with 1
Trimmed(bits) == SubSeq(bits, 1, SkipBack(bits, Len(bits), {0}))

\* one unit of the last of the 53 bits m added to them
RoundedUp(m, exp) ==
  IF \A i \in 1..53 : m[i] = 1
  THEN [mant |-> <<1>>, exp |-> exp + 1]
  ELSE [mant |-> SubSeq(m, 1, SkipBack(m, 53, {1}) - 1) \o <<1>>, exp |-> exp]

\* 0.bits * 2^exp, bits starting with 1, plus less than one unit of the last
\* bit when sticky holds, rounded to nearest, ties to even, with no bound on
\* the exponent
Round(bits, exp, sticky) ==
  IF Len(bits) < 54 THEN [mant |-> Trimmed(bits), exp |-> exp]
  ELSE IF /\ bits[54] = 1
          /\ \/ sticky
             \/ \E i \in 55..Len(bits) : bits[i] = 1
             \/ bits[53] = 1
  THEN RoundedUp(SubSeq(bits, 1, 53), exp)
  ELSE [mant |-> Trimmed(SubSeq(bits, 1, 53)), exp |-> exp]

\* the bits all of an integer of intLen bits and a fraction, rounded; z is
\* where the first 1 is
DoubleBits(all, z, intLen, sticky) == Round(From(all, z), intLen - (z - 1), sticky)

\* the bits e of a fraction put behind the bits ib of an integer
DoubleExpanded(ib, e) ==
  DoubleBits(ib \o e.bits, SkipWhile(ib \o e.bits, 1, {0}), Len(ib),
             \E i \in 1..Len(e.rest) : e.rest[i] # 0)

\* the double nearest to int + 0.l, for an integer int < 2^30 and a fraction
\* l in groups of seven digits, the sum being at least 10^-(MaxFrac + 1)
Double(int, l) ==
  DoubleExpanded(BitsOf(int, BitLen(int)),
                 Expand(l, (54 + 4 * (MaxFrac + 1)) \div 7 + 1, <<>>))

\* the double nearest to k / 10^MaxFrac, for k >= 1
DoubleOf(k) ==
  Double(k \div Pow10(MaxFrac), <<(k % Pow10(MaxFrac)) * Pow10(7 - MaxFrac)>>)

\* the bit of weight 2^-i of the mantissa mant
Bit(mant, i) == IF i >= 1 /\ i <= Len(mant) THEN mant[i] ELSE 0

RECURSIVE FractionTimes(_, _, _)
\* the integer part of m times the binary fraction whose bits are those of b
\* from its i-th group of twenty bits on
FractionTimes(b, i, m) ==
  IF 20 * (i - 1) >= Len(b) THEN 0
  ELSE (m * BitsVal([j \in 1..20 |->
                       IF 20 * (i - 1) + j <= Len(b) THEN b[20 * (i - 1) + j] ELSE 0])
        + FractionTimes(b, i + 1, m)) \div Pow2(20)

\* the fixed-point image of the double d, k2 being the integer part of
\* 2 * 10^MaxFrac * d: the double of a multiple of 10^-MaxFrac is d only when
\* d is within a unit of its last bit of the multiple, hence not below it by
\* half of 10^-MaxFrac
ImageNear(d, k2) ==
  IF k2 % 2 = 1 /\ DoubleOf(k2 \div 2 + 1) = d THEN k2 \div 2 + 1 ELSE k2 \div 2

\* the fixed-point image of the double d < 2^30 with the integer part int
ImageFrom(d, int) ==
  IF int >= Pow10(MaxDigits) THEN Huge
  ELSE ImageNear(d, int * 2 * Pow10(MaxFrac)
                    + FractionTimes([i \in 1..(Len(d.mant) - d.exp) |->
                                       Bit(d.mant, d.exp + i)],
                                    1, 2 * Pow10(MaxFrac)))

\* the fixed-point image of the double d: the largest k with
\* double(k / 10^MaxFrac) <= d, Huge from 10^MaxDigits on
Image(d) ==
  IF d.exp > 30 THEN Huge
  ELSE IF d.exp < 0 - 4 * (MaxFrac + 1) THEN 0
  ELSE ImageFrom(d, BitsVal([i \in 1..d.exp |-> Bit(d.mant, i)]))

\* the value of an exponent part: position q holds the exponent character of
\* marks, then an optional sign, then digits; without a digit there is no
\* exponent part and the text ends before q.  An exponent of more than nine
\* digits is cut to nine nines, out of range with every text.
ExpEnd(s, q, marks) ==
  LET d == SkipOpt(s, q + 1, Sign)
      e == SkipWhile(s, d, Digit)
  IN IF q <= Len(s) /\ s[q] \in marks /\ e > d THEN e ELSE q

ExpVal(s, q, marks) ==
  LET d == SkipOpt(s, q + 1, Sign)
      ds == StripZeros(SubSeq(s, d, ExpEnd(s, q, marks) - 1))
      mag == IF Len(ds) > 9 THEN 999999999 ELSE DigitsVal(ds)
  IN IF ExpEnd(s, q, marks) = q THEN 0
     ELSE IF d > q + 1 /\ s[q + 1] = "-" THEN 0 - mag
     ELSE mag

\* whether 2^1074 times the fraction l is an integer: 153 times seven bits
\* and three more leave nothing behind
ExactSubnormal(l) ==
  LET a == Expand(l, 51, <<>>).rest
      b == Expand(a, 51, <<>>).rest
      c == Expand(b, 51, <<>>).rest
      r == ShiftLimbs(c, Pow2(3))
  IN \A i \in 1..Len(r) : r[i] = 0

\* a decimal text below 2^-1022 - 2^-1076, 0.fd with fd the digits sig behind
\* zeros zeros: strtod reports ERANGE unless the value is a multiple of
\* 2^-1074; such a double is below every fixed-point unit
Subnormal(sig, zeros) ==
  IF Len(sig) + zeros > 1074 THEN [ok |-> FALSE, val |-> 0]
  ELSE [ok |-> ExactSubnormal(Limbs([i \in 1..zeros |-> "0"] \o sig)), val |-> 0]

\* the magnitude 0.sig * 10^intLen of a decimal text with the significant
\* digits sig (no leading zero), rounded to the nearest double: out of range
\* from 2^1024 - 2^970 on, and below 2^-1022 - 2^-1076 when inexact
DecimalScaled(sig, intLen) ==
  IF sig = <<>> THEN [ok |-> TRUE, val |-> 0]
  ELSE IF \/ intLen > 309
          \/ intLen = 309 /\ ~LimbsLess(Limbs(sig), DoubleMaxDigits)
  THEN [ok |-> FALSE, val |-> 0]
  ELSE IF \/ intLen < 0 - 307
          \/ intLen = 0 - 307 /\ LimbsLess(Limbs(sig), DoubleMinDigits)
  THEN Subnormal(SubSeq(sig, 1, SkipBack(sig, Len(sig), {"0"})), 0 - intLen)
  ELSE IF intLen > MaxDigits THEN [ok |-> TRUE, val |-> Huge]
  ELSE IF intLen < 0 - MaxFrac THEN [ok |-> TRUE, val |-> 0]
  ELSE [ok |-> TRUE,
        val |-> Image(Double(DigitsVal(Padded(sig, intLen)),
                             Limbs([i \in 1..(0 - intLen) |-> "0"]
                                   \o From(sig, IF intLen > 0 THEN intLen + 1 ELSE 1))))]

\* the magnitude of the decimal text ipart.fpart e exp
DecimalValue(ipart, fpart, exp) ==
  LET sig == StripZeros(ipart \o fpart)
  IN DecimalScaled(sig, Len(ipart) - (Len(ipart \o fpart) - Len(sig)) + exp)

\* the double d that a hexadecimal text rounds to, low being the exponent of
\* the last bit of the text: out of range from 2^1024 on, and below 2^-1022
\* when the text has a bit below 2^-1074
HexRounded(d, low) ==
  IF d.exp > 1024 THEN [ok |-> FALSE, val |-> 0]
  ELSE IF d.exp < 0 - 1021 THEN [ok |-> low >= 0 - 1074, val |-> 0]
  ELSE [ok |-> TRUE, val |-> Image(d)]

\* the magnitude 0.bits * 2^intLen of a hexadecimal text with the
\* significant bits bits (no leading zero), rounded to the nearest double
HexScaled(bits, intLen) ==
  IF bits = <<>> THEN [ok |-> TRUE, val |-> 0]
  ELSE HexRounded(Round(bits, intLen, FALSE),
                  intLen - (CHOOSE i \in 1..Len(bits) :
                              bits[i] = 1 /\ \A j \in (i + 1)..Len(bits) : bits[j] = 0))

\* the magnitude of the hexadecimal text 0x hip.hfp p exp
HexValue(hip, hfp, exp) ==
  LET sig == StripZeros(hip \o hfp)
      all == HexBits(sig)
      bits == From(all, SkipWhile(all, 1, {0}))
  IN HexScaled(bits, 4 * (Len(hip) - (Len(hip \o hfp) - Len(sig)))
                       - (Len(all) - Len(bits)) + exp)

\* strtod on a case-folded text without sign: "inf"/"infinity", "nan", a
\* hexadecimal float or a decimal float; what follows the number is ignored
Magnitude(t) ==
  LET h1 == SkipWhile(t, 3, HexDigit)
      h2 == SkipOpt(t, h1, {"."})
      h3 == SkipWhile(t, h2, HexDigit)
      p2 == SkipWhile(t, 1, Digit)
      p3 == SkipOpt(t, p2, {"."})
      p4 == SkipWhile(t, p3, Digit)
  IN IF StartsWith(t, <<"i", "n", "f">>) THEN [ok |-> TRUE, val |-> INFINITY]
     ELSE IF StartsWith(t, <<"n", "a", "n">>) THEN [ok |-> TRUE, val |-> NaN]
     ELSE IF StartsWith(t, <<"0", "x">>) /\ (h1 > 3 \/ h3 > h2)
     THEN HexValue(SubSeq(t, 3, h1 - 1), SubSeq(t, h2, h3 - 1), ExpVal(t, h3, {"p"}))
     ELSE IF p2 = 1 /\ p4 = p3
     THEN [ok |-> FALSE, val |-> 0]
     ELSE DecimalValue(SubSeq(t, 1, p2 - 1), SubSeq(t, p3, p4 - 1), ExpVal(t, p4, {"e"}))

\* the sign applied to the magnitude m; a NaN keeps no sign
Signed(m, neg) ==
  IF ~m.ok THEN [ok |-> FALSE, val |-> 0]
  ELSE IF m.val = NaN THEN [ok |-> TRUE, val |-> NaN]
  ELSE [ok |-> TRUE, val |-> IF neg THEN 0 - m.val ELSE m.val]

\* std::stod, which is strtod: leading isspace() characters, an optional
\* sign, then the number; what follows it is ignored.  ok is FALSE when stod
\* throws: std::invalid_argument without a number, std::out_of_range when
\* strtod reports ERANGE; what() is "stod" for both.  The text is rounded to
\* the nearest double, whose fixed-point image is the value.
stod(s) ==
  LET p0 == SkipWhile(s, 1, RegexWs)
      p1 == SkipOpt(s, p0, Sign)
  IN Signed(Magnitude(LowerCase(From(s, p1))), p1 > p0 /\ s[p0] = "-")

\* --------------------------------------------------------- exception kinds
\* what() of the exceptions thrown by the parser; "stod" is the
\* std::invalid_argument of std::stod, whose message has no line number
NoError == [kind |-> "none", line |-> 0]
Thrown(kind, ln) == [kind |-> kind, line |-> ln]
StodError == [kind |-> "stod", line |-> 0]

\* ---------------------------------------------------------------- parseTerm
\* regex_match against ([+-]?\d*\.?\d*)([a-zA-Z_][a-zA-Z0-9_]*): the end of
\* group 1, which is where group 2 has to start
TermCoeffEnd(token) ==
  SkipWhile(token,
            SkipOpt(token,
                    SkipWhile(token, SkipOpt(token, 1, Sign), Digit),
                    {"."}),
            Digit)

TermMatches(token) ==
  LET p == TermCoeffEnd(token)
  IN /\ p <= Len(token)
     /\ token[p] \in IdentStart
     /\ SkipWhile(token, p + 1, IdentChar) = Len(token) + 1

\* coeff = stod(coeffStr); return Term{ coeff, match[2] }, c being what stod
\* gives
StodTerm(c, variable) ==
  IF c.ok
  THEN [err |-> NoError, coefficient |-> c.val, variable |-> variable]
  ELSE [err |-> StodError, coefficient |-> 0, variable |-> <<>>]

parseTerm(token, ln) ==
  LET p == TermCoeffEnd(token)
      coeffStr == SubSeq(token, 1, p - 1)
      variable == From(token, p)
  IN IF ~TermMatches(token)
     THEN [err |-> Thrown("Invalid term format", ln), coefficient |-> 0, variable |-> <<>>]
     ELSE IF coeffStr # <<>> /\ coeffStr # <<"+">> /\ coeffStr # <<"-">>
     THEN StodTerm(stod(coeffStr), variable)
     ELSE IF coeffStr = <<"-">>
     THEN [err |-> NoError, coefficient |-> 0 - Num(1), variable |-> variable]
     ELSE [err |-> NoError, coefficient |-> Num(1), variable |-> variable]

\* ---------------------------------------------------------- parseExpression
\* end of the match of [+-]?\s*\d*\.?\d*[a-zA-Z_][a-zA-Z0-9_]* that starts at
\* i, 0 when the pattern does not match there
TokenEnd(s, i) ==
  LET p == SkipWhile(s,
                     SkipOpt(s,
                             SkipWhile(s,
                                       SkipWhile(s, SkipOpt(s, i, Sign), RegexWs),
                                       Digit),
                             {"."}),
                     Digit)
  IN IF p <= Len(s) /\ s[p] \in IdentStart
     THEN SkipWhile(s, p + 1, IdentChar) - 1
     ELSE 0

\* regex_replace(tok, regex("\s+"), "")
StripSpaces(tok) == SelectSeq(tok, LAMBDA c : c \notin RegexWs)

RECURSIVE Tokens(_, _)
\* the matches the sregex_iterator yields from position i on, left to right,
\* each with its inner whitespace removed
Tokens(s, i) ==
  IF i > Len(s) THEN <<>>
  ELSE IF TokenEnd(s, i) = 0 THEN Tokens(s, i + 1)
  ELSE <<StripSpaces(SubSeq(s, i, TokenEnd(s, i)))>> \o Tokens(s, TokenEnd(s, i) + 1)

Term(t) == [coefficient |-> t.coefficient, variable |-> t.variable]

\* terms.push_back(t) followed by the rest of the loop, which an exception
\* of parseTerm ends
PushBack(t, rest) ==
  IF t.err # NoError THEN [err |-> t.err, terms |-> <<>>]
  ELSE IF rest.err # NoError THEN rest
  ELSE [err |-> NoError, terms |-> <<Term(t)>> \o rest.terms]

RECURSIVE ParseTerms(_, _)
\* the loop of parseExpression: the first parseTerm that throws ends it
ParseTerms(toks, ln) ==
  IF toks = <<>> THEN [err |-> NoError, terms |-> <<>>]
  ELSE PushBack(parseTerm(Head(toks), ln), ParseTerms(Tail(toks), ln))

\* parseExpression without its terms.empty() test
parseExpressionUnchecked(exprStr, ln) == ParseTerms(Tokens(exprStr, 1), ln)

\* if (terms.empty()) throw ...; return terms; r being what the loop leaves
NonEmpty(r, ln) ==
  IF r.err = NoError /\ r.terms = <<>>
  THEN [err |-> Thrown("No valid terms found in expression", ln), terms |-> <<>>]
  ELSE r

parseExpression(exprStr, ln) == NonEmpty(ParseTerms(Tokens(exprStr, 1), ln), ln)

\* ---------------------------------------------------------- parseConstraint
\* the operator (<=|>=|=) found at position i, <<>> if none starts there
OpAt(s, i) ==
  IF i + 1 <= Len(s) /\ SubSeq(s, i, i + 1) = <<"<", "=">> THEN <<"<", "=">>
  ELSE IF i + 1 <= Len(s) /\ SubSeq(s, i, i + 1) = <<">", "=">> THEN <<">", "=">>
  ELSE IF i <= Len(s) /\ s[i] = "=" THEN <<"=">>
  ELSE <<>>

\* the characters the regex atom . does not match (ECMAScript line
\* terminators; getline leaves no \n in a line, trim no \r at its ends, a
\* \r inside the line stays)
LineTerminators == {"\n", "\r"}

\* regex_match against (.+)(<=|>=|=)(.+): the lengths k of group 1 for which
\* an operator starts at k+1 and leaves a non-empty group 3, groups 1 and 3
\* holding no line terminator
ConstraintSplits(s) ==
  {k \in 1..Len(s) :
     /\ OpAt(s, k + 1) # <<>>
     /\ k + Len(OpAt(s, k + 1)) < Len(s)
     /\ \A j \in 1..Len(s) : s[j] \notin LineTerminators}

\* the greedy (.+) takes the longest group 1 that lets the rest match
ConstraintSplit(s) ==
  CHOOSE k \in ConstraintSplits(s) : \A j \in ConstraintSplits(s) : j <= k

LinearExpression(terms, rhs, op, ln) ==
  [terms |-> terms, rhs |-> rhs, op |-> op, lineNumber |-> ln]

NoExpression == LinearExpression(<<>>, 0, <<>>, 0)

\* vector<Term> terms = parseExpression(lhs, line); double rhs = stod(rhsStr);
\* return LinearExpression{ terms, rhs, op, line }; e and rhs being what the
\* two calls give, the exception of the first one taking precedence
Constraint(e, rhs, op, ln) ==
  IF e.err # NoError THEN [err |-> e.err, expr |-> NoExpression]
  ELSE IF ~rhs.ok THEN [err |-> StodError, expr |-> NoExpression]
  ELSE [err |-> NoError, expr |-> LinearExpression(e.terms, rhs.val, op, ln)]

parseConstraint(lineStr, ln) ==
  IF ConstraintSplits(lineStr) = {}
  THEN [err |-> Thrown("Invalid constraint format", ln), expr |-> NoExpression]
  ELSE LET k == ConstraintSplit(lineStr)
           lhs == SubSeq(lineStr, 1, k)
           op == OpAt(lineStr, k + 1)
           rhsStr == From(lineStr, k + Len(op) + 1)
       IN Constraint(parseExpression(lhs, ln), stod(rhsStr), op, ln)

\* -------------------------------------------------------------- the input
\* the raw lines an input file is made of
\* "Max"
LMax == <<"M", "a", "x">>
\* "Min"
LMin == <<"M", "i", "n">>
\* "3x + 2y"
LObjective == <<"3", "x", " ", "+", " ", "2", "y">>
\* "x + y <= 10"
LConstraint == <<"x", " ", "+", " ", "y", " ", "<", "=", " ", "1", "0">>
\* "// c"
LComment == <<"/", "/", " ", "c">>
\* "Bounds:"
LBounds == <<"B", "o", "u", "n", "d", "s", ":">>
\* "Integer:"
LInteger == <<"I", "n", "t", "e", "g", "e", "r", ":">>
\* " Binary:"
LBinary == <<" ", "B", "i", "n", "a", "r", "y", ":">>
\* "x free"
LFree == <<"x", " ", "f", "r", "e", "e">>
\* "y >= 2"
LLower == <<"y", " ", ">", "=", " ", "2">>
\* "y <= 8"
LUpper == <<"y", " ", "<", "=", " ", "8">>
\* "y = 5"
LFixed == <<"y", " ", "=", " ", "5">>
\* "x, y"
LNames == <<"x", ",", " ", "y">>
\* "x <= 5 <= 10"
LTwoOps == <<"x", " ", "<", "=", " ", "5", " ", "<", "=", " ", "1", "0">>
\* "x <= y"
LNoNumber == <<"x", " ", "<", "=", " ", "y">>
\* "xfree >= 2"
LFreeName == <<"x", "f", "r", "e", "e", " ", ">", "=", " ", "2">>

\* "free"
LFreeAlone == <<"f", "r", "e", "e">>
\* "  "
LBlank == <<" ", " ">>
\* "10 <= 5"
LNoTerms == <<"1", "0", " ", "<", "=", " ", "5">>
\* "x,,y"
LDoubleComma == <<"x", ",", ",", "y">>

Lines ==
  {LMax, LMin, LObjective, LConstraint, LComment,
   LBounds, LInteger, LBinary, LFree, LLower,
   LUpper, LFixed, LNames, LTwoOps, LNoNumber,
   LFreeName, LFreeAlone, LBlank, LNoTerms, LDoubleComma}

\* The modelled files: what the next line can be depends on where the
\* parser is.  Before a direction or an objective has been consumed any line
\* with an identifier would be taken as the objective, and in a type section
\* any line is taken as a list of names, so these places offer fewer lines.
HeadLines == {LMax, LMin, LComment, LBlank, LObjective, LNoTerms, LBounds}
DeclLines ==
  {LMax, LComment, LBlank, LBounds, LInteger, LBinary, LNames, LFree, LDoubleComma}

Offered(section, parsed) ==
  IF ~parsed THEN HeadLines
  ELSE IF section \in {"INTEGERS", "BINARIES"} THEN DeclLines
  ELSE Lines

\* ------------------------------------------------------------------- state
VARIABLES
  lineNo,           \* int lineNo
  line,             \* string line, trimmed
  current,          \* Section current
  objectiveParsed,  \* bool objectiveParsed
  model,            \* LPModel model
  pc,               \* "parsing", "returned", "thrown", "loaded", "load_thrown"
  err,              \* the exception that left parseFile or loadModel
  solver            \* what GLPKSolver::loadModel put into the GLPK problem

vars == <<lineNo, line, current, objectiveParsed, model, pc, err, solver>>

\* struct Bound with its default member initializers
DefaultBound ==
  [lower |-> 0 - INFINITY, upper |-> INFINITY, isFree |-> FALSE, type |-> "CONTINUOUS"]

\* unordered_map::operator[]: value-initializes the entry of a new key
At(bounds, var) ==
  IF var \in DOMAIN bounds THEN bounds ELSE bounds @@ (var :> DefaultBound)

\* LPModel model; -- type has no initializer and is indeterminate ("UNINIT"),
\* as is objective.lineNumber (kept 0: nothing reads it)
NewModel ==
  [type |-> "UNINIT", objective |-> NoExpression, constraints |-> <<>>, bounds |-> <<>>]

Init ==
  /\ lineNo = 0
  /\ line = <<>>
  /\ current = "NONE"
  /\ objectiveParsed = FALSE
  /\ model = NewModel
  /\ pc = "parsing"
  /\ err = NoError
  /\ solver = [dir |-> "none", cols |-> {}, rows |-> <<>>]

\* ---------------------------------------------------- Parser::parseFile loop
\* getline delivers raw; lineNo++; line = trim(line)
Read(raw) ==
  /\ pc = "parsing"
  /\ lineNo < MaxLines
  /\ raw \in Offered(current, objectiveParsed)
  /\ lineNo' = lineNo + 1
  /\ line' = trim(raw)

\* throw runtime_error(...): the exception leaves parseFile, whose model and
\* section state are destroyed with the frame; line and lineNo are kept to
\* show where it was raised
Throw(e) ==
  /\ pc' = "thrown"
  /\ err' = e
  /\ current' = "NONE"
  /\ objectiveParsed' = FALSE
  /\ model' = NewModel
  /\ UNCHANGED solver

IsSkipped(l) == isBlank(l) \/ StartsWith(l, <<"/", "/">>)
IsDirection(l) == l = <<"M", "a", "x">> \/ l = <<"M", "i", "n">>
BoundsHeader == <<"B", "o", "u", "n", "d", "s", ":">>
IntegerHeader == <<"I", "n", "t", "e", "g", "e", "r", ":">>
BinaryHeader == <<"B", "i", "n", "a", "r", "y", ":">>
IsHeader(l) == l \in {BoundsHeader, IntegerHeader, BinaryHeader}

\* SkipLine with a skipped line closing the current section
SkipLineEndsSection ==
  \E raw \in Lines :
    /\ Read(raw)
    /\ IsSkipped(trim(raw))
    /\ current' = "NONE"
    /\ UNCHANGED <<objectiveParsed, model, pc, err, solver>>

\* ifstream file(path); if (!file.is_open()) throw runtime_error("Could not
\* open input file: " + path): raised at the entry, before any line is read
OpenFails ==
  /\ pc = "parsing"
  /\ lineNo = 0
  /\ Throw(Thrown("Could not open input file", 0))
  /\ UNCHANGED <<lineNo, line>>

\* if (isBlank(line) || line.rfind("//", 0) == 0) continue;
SkipLine ==
  \E raw \in Lines :
    /\ Read(raw)
    /\ IsSkipped(trim(raw))
    /\ UNCHANGED <<current, objectiveParsed, model, pc, err, solver>>

\* line == "Max" || line == "Min", objectiveParsed still false
DirectionLine ==
  \E raw \in Lines :
    /\ Read(raw)
    /\ ~IsSkipped(trim(raw))
    /\ IsDirection(trim(raw))
    /\ ~objectiveParsed
    /\ model' = [model EXCEPT
                   !.type = IF trim(raw) = <<"M", "a", "x">> THEN "MAXIMIZE" ELSE "MINIMIZE"]
    /\ objectiveParsed' = TRUE
    /\ UNCHANGED <<current, pc, err, solver>>

\* line == "Max" || line == "Min" with objectiveParsed set
DuplicateDirection ==
  \E raw \in Lines :
    /\ Read(raw)
    /\ ~IsSkipped(trim(raw))
    /\ IsDirection(trim(raw))
    /\ objectiveParsed
    /\ Throw(Thrown("Duplicate optimization type", lineNo'))

\* if (!objectiveParsed) { model.objective = {parseExpression(...), 0.0, "", lineNo}; ... }
ObjectiveLine ==
  \E raw \in Lines :
    /\ Read(raw)
    /\ ~IsSkipped(trim(raw))
    /\ ~IsDirection(trim(raw))
    /\ ~objectiveParsed
    /\ LET e == parseExpression(trim(raw), lineNo')
       IN IF e.err # NoError
          THEN Throw(e.err)
          ELSE /\ model' = [model EXCEPT
                              !.objective = LinearExpression(e.terms, 0, <<>>, lineNo')]
               /\ objectiveParsed' = TRUE
               /\ current' = "CONSTRAINTS"
               /\ UNCHANGED <<pc, err, solver>>

\* a line that reaches the section dispatch: objectiveParsed is set
Dispatched(raw) ==
  /\ Read(raw)
  /\ ~IsSkipped(trim(raw))
  /\ ~IsDirection(trim(raw))
  /\ objectiveParsed

\* SectionHeader starting the section it enters with an empty bounds mapping
SectionHeaderClears ==
  \E raw \in Lines :
    /\ Dispatched(raw)
    /\ IsHeader(trim(raw))
    /\ current' = (IF trim(raw) = BoundsHeader THEN "BOUNDS"
                   ELSE IF trim(raw) = IntegerHeader THEN "INTEGERS"
                   ELSE "BINARIES")
    /\ model' = [model EXCEPT !.bounds = <<>>]
    /\ UNCHANGED <<objectiveParsed, pc, err, solver>>

\* if (line == "Bounds:") { current = BOUNDS; continue; } and its two siblings
SectionHeader ==
  \E raw \in Lines :
    /\ Dispatched(raw)
    /\ IsHeader(trim(raw))
    /\ current' = (IF trim(raw) = BoundsHeader THEN "BOUNDS"
                   ELSE IF trim(raw) = IntegerHeader THEN "INTEGERS"
                   ELSE "BINARIES")
    /\ UNCHANGED <<objectiveParsed, model, pc, err, solver>>

\* ConstraintLine without the test of the current section
ConstraintLineAnywhere ==
  \E raw \in Lines :
    /\ Dispatched(raw)
    /\ ~IsHeader(trim(raw))
    /\ LET c == parseConstraint(trim(raw), lineNo')
       IN IF c.err # NoError
          THEN Throw(c.err)
          ELSE /\ model' = [model EXCEPT !.constraints = Append(@, c.expr)]
               /\ UNCHANGED <<current, objectiveParsed, pc, err, solver>>

\* model.constraints.push_back(parseConstraint(line, lineNo));
ConstraintLine ==
  \E raw \in Lines :
    /\ Dispatched(raw)
    /\ ~IsHeader(trim(raw))
    /\ current = "CONSTRAINTS"
    /\ LET c == parseConstraint(trim(raw), lineNo')
       IN IF c.err # NoError
          THEN Throw(c.err)
          ELSE /\ model' = [model EXCEPT !.constraints = Append(@, c.expr)]
               /\ UNCHANGED <<current, objectiveParsed, pc, err, solver>>

\* regex_match against (\w+)\s*(>=|<=|=)\s*(-?\d+\.?\d*): the positions where
\* the operator and the number start, and whether the whole line matches
BoundOpPos(l) == SkipWhile(l, SkipWhile(l, 1, IdentChar), RegexWs)
BoundNumPos(l) == SkipWhile(l, BoundOpPos(l) + Len(OpAt(l, BoundOpPos(l))), RegexWs)

BoundMatches(l) ==
  LET d == SkipOpt(l, BoundNumPos(l), {"-"})
      e == SkipWhile(l, d, Digit)
  IN /\ SkipWhile(l, 1, IdentChar) > 1
     /\ OpAt(l, BoundOpPos(l)) # <<>>
     /\ e > d
     /\ SkipWhile(l, SkipOpt(l, e, {"."}), Digit) = Len(l) + 1

FreeWord == <<"f", "r", "e", "e">>

\* if (line.find("free") != npos) model.bounds[trim(line.substr(0, pos))].isFree = true;
BoundFree ==
  \E raw \in Lines :
    /\ Dispatched(raw)
    /\ ~IsHeader(trim(raw))
    /\ current = "BOUNDS"
    /\ Find(trim(raw), FreeWord) # 0
    /\ LET var == trim(SubSeq(trim(raw), 1, Find(trim(raw), FreeWord) - 1))
       IN model' = [model EXCEPT !.bounds = [At(@, var) EXCEPT ![var].isFree = TRUE]]
    /\ UNCHANGED <<current, objectiveParsed, pc, err, solver>>

\* SetBound writing into a fresh Bound that replaces the stored record
SetBoundFresh(bounds, var, op, val) ==
  LET fresh == (var :> DefaultBound) @@ bounds
  IN IF op = <<">", "=">> THEN [fresh EXCEPT ![var].lower = val]
     ELSE IF op = <<"<", "=">> THEN [fresh EXCEPT ![var].upper = val]
     ELSE IF op = <<"=">> THEN [fresh EXCEPT ![var].lower = val, ![var].upper = val]
     ELSE fresh

\* auto& b = model.bounds[var]; then the assignment selected by op
SetBound(bounds, var, op, val) ==
  IF op = <<">", "=">> THEN [At(bounds, var) EXCEPT ![var].lower = val]
  ELSE IF op = <<"<", "=">> THEN [At(bounds, var) EXCEPT ![var].upper = val]
  ELSE IF op = <<"=">> THEN [At(bounds, var) EXCEPT ![var].lower = val, ![var].upper = val]
  ELSE At(bounds, var)

\* else if (regex_match(line, match, boundPattern)) { ... }
BoundAssign ==
  \E raw \in Lines :
    /\ Dispatched(raw)
    /\ ~IsHeader(trim(raw))
    /\ current = "BOUNDS"
    /\ Find(trim(raw), FreeWord) = 0
    /\ BoundMatches(trim(raw))
    /\ LET l == trim(raw)
           var == SubSeq(l, 1, SkipWhile(l, 1, IdentChar) - 1)
           op == OpAt(l, BoundOpPos(l))
           val == stod(From(l, BoundNumPos(l)))
       IN IF ~val.ok
          THEN Throw(StodError)
          ELSE /\ model' = [model EXCEPT !.bounds = SetBound(@, var, op, val.val)]
               /\ UNCHANGED <<current, objectiveParsed, pc, err, solver>>

\* else throw runtime_error("Line N: Invalid bound format.")
BoundError ==
  \E raw \in Lines :
    /\ Dispatched(raw)
    /\ ~IsHeader(trim(raw))
    /\ current = "BOUNDS"
    /\ Find(trim(raw), FreeWord) = 0
    /\ ~BoundMatches(trim(raw))
    /\ Throw(Thrown("Invalid bound format", lineNo'))

\* SetType without the two assignments of the BINARIES branch
SetTypeOnly(bounds, var, section) ==
  [At(bounds, var) EXCEPT ![var].type = IF section = "BINARIES" THEN "BINARY" ELSE "INTEGER"]

\* b.type = INTEGER or BINARY; if (current == BINARIES) { b.lower = 0; b.upper = 1; }
SetType(bounds, var, section) ==
  IF section = "BINARIES"
  THEN [At(bounds, var) EXCEPT ![var].type = "BINARY",
                               ![var].lower = Num(0), ![var].upper = Num(1)]
  ELSE [At(bounds, var) EXCEPT ![var].type = "INTEGER"]

RECURSIVE Declare(_, _, _)
\* for (const string& var : vars) { ... }
Declare(bounds, names, section) ==
  IF names = <<>> THEN bounds
  ELSE Declare(SetType(bounds, Head(names), section), Tail(names), section)

\* else if (current == INTEGERS || current == BINARIES) { ... }
TypeDecl ==
  \E raw \in Lines :
    /\ Dispatched(raw)
    /\ ~IsHeader(trim(raw))
    /\ current \in {"INTEGERS", "BINARIES"}
    /\ model' = [model EXCEPT !.bounds = Declare(@, split(trim(raw), ","), current)]
    /\ UNCHANGED <<current, objectiveParsed, pc, err, solver>>

\* else throw runtime_error("Line N: Unexpected line or misplaced section.")
UnexpectedLine ==
  \E raw \in Lines :
    /\ Dispatched(raw)
    /\ ~IsHeader(trim(raw))
    /\ current = "NONE"
    /\ Throw(Thrown("Unexpected line or misplaced section", lineNo'))

\* getline fails at the end of the stream: return model; the locals of
\* parseFile end with the call, the model is what the caller receives
EndOfFile ==
  /\ pc = "parsing"
  /\ pc' = "returned"
  /\ lineNo' = 0
  /\ line' = <<>>
  /\ current' = "NONE"
  /\ objectiveParsed' = FALSE
  /\ UNCHANGED <<model, err, solver>>

\* ------------------------------------------------------ GLPKSolver::loadModel
\* the variables of a term list, in order
Variables(terms) == {terms[i].variable : i \in DOMAIN terms}

\* every varNameToCol.at(term.variable) of the objective and the matrix finds a column
AllColumnsFound(m) ==
  /\ Variables(m.objective.terms) \subseteq DOMAIN m.bounds
  /\ \A i \in DOMAIN m.constraints :
       Variables(m.constraints[i].terms) \subseteq DOMAIN m.bounds

\* a row glp_add_rows has created and glp_set_row_bnds has not reached
FreeRow == [type |-> "GLP_FR", rhs |-> 0]

\* glp_set_row_bnds by con.op; any other operator throws
\* runtime_error("Unknown constraint operator: " + con.op)
RowOf(con) ==
  IF con.op = <<"<", "=">> THEN [err |-> NoError, type |-> "GLP_UP", rhs |-> con.rhs]
  ELSE IF con.op = <<">", "=">> THEN [err |-> NoError, type |-> "GLP_LO", rhs |-> con.rhs]
  ELSE IF con.op = <<"=">> THEN [err |-> NoError, type |-> "GLP_FX", rhs |-> con.rhs]
  ELSE [err |-> Thrown("Unknown constraint operator", 0), type |-> "GLP_FR", rhs |-> 0]

\* the indices of the constraints whose operator makes RowOf throw
UnknownOperatorRows(m) ==
  {i \in DOMAIN m.constraints : RowOf(m.constraints[i]).err # NoError}

\* the rows as the loop over the constraints leaves them: it ends at the
\* first row whose operator is unknown
RowsSet(m) ==
  [i \in DOMAIN m.constraints |->
     IF \E j \in UnknownOperatorRows(m) : j <= i
     THEN FreeRow
     ELSE [type |-> RowOf(m.constraints[i]).type, rhs |-> RowOf(m.constraints[i]).rhs]]

\* the direction glp_set_obj_dir receives; an indeterminate model.type lets
\* the comparison with MAXIMIZE go either way
Directions(m) ==
  IF m.type = "MAXIMIZE" THEN {"GLP_MAX"}
  ELSE IF m.type = "MINIMIZE" THEN {"GLP_MIN"}
  ELSE {"GLP_MAX", "GLP_MIN"}

LoadModel ==
  /\ pc = "returned"
  /\ \E d \in Directions(model) :
       solver' = [dir |-> d,
                  cols |-> DOMAIN model.bounds,
                  rows |-> IF Variables(model.objective.terms) \subseteq DOMAIN model.bounds
                           THEN RowsSet(model)
                           ELSE <<>>]
  /\ IF ~(Variables(model.objective.terms) \subseteq DOMAIN model.bounds)
     THEN pc' = "load_thrown" /\ err' = Thrown("out_of_range", 0)
     ELSE IF UnknownOperatorRows(model) # {}
     THEN pc' = "load_thrown" /\ err' = Thrown("Unknown constraint operator", 0)
     ELSE IF ~AllColumnsFound(model)
     THEN pc' = "load_thrown" /\ err' = Thrown("out_of_range", 0)
     ELSE pc' = "loaded" /\ err' = NoError
  /\ UNCHANGED <<lineNo, line, current, objectiveParsed, model>>

Next ==
  \/ OpenFails
  \/ SkipLine
  \/ DirectionLine
  \/ DuplicateDirection
  \/ ObjectiveLine
  \/ SectionHeader
  \/ ConstraintLine
  \/ BoundFree
  \/ BoundAssign
  \/ BoundError
  \/ TypeDecl
  \/ UnexpectedLine
  \/ EndOfFile
  \/ LoadModel

Spec == Init /\ [][Next]_vars

\* ------------------------------------------- the two readers on their own
\* parseTerm and parseExpression applied to one text each: the text is held
\* in line, the line number passed along in lineNo; the terms they return
\* are kept as the term list of model.objective, an exception in err.

\* the parts a term text is put together from
TermSigns == {<<>>, <<"+">>, <<"-">>}
TermCoefficients ==
  {<<>>, <<"3">>, <<"1", "0">>, <<"2", ".", "5">>, <<".", "5">>, <<"3", ".">>, <<".">>}
TermIdentifiers == {<<>>, <<"x">>, <<"y", "1">>, <<"_", "z">>}
TermGaps == {<<>>, <<" ">>}

\* const string& token of parseTerm
TermTokens ==
  {s \o c \o i : s \in TermSigns, c \in TermCoefficients, i \in TermIdentifiers}
    \cup {<<"x", "+">>, <<"3", " ", "x">>, <<"x", "-", "y">>}

\* const string& exprStr of parseExpression: one term with or without
\* whitespace after its sign and after its coefficient
ExprTexts ==
  {s \o g \o c \o h \o i :
     s \in TermSigns, g \in TermGaps, c \in TermCoefficients \ {<<".">>},
     h \in TermGaps, i \in TermIdentifiers \ {<<>>}}

ReaderInit ==
  /\ pc \in {"parseTerm", "parseExpression"}
  /\ line \in (IF pc = "parseTerm" THEN TermTokens ELSE ExprTexts)
  /\ lineNo \in 1..MaxLines
  /\ current = "NONE"
  /\ objectiveParsed = FALSE
  /\ model = NewModel
  /\ err = NoError
  /\ solver = [dir |-> "none", cols |-> {}, rows |-> <<>>]

\* expr.push_back(parseTerm(token, lineNo)) on an empty list
CallParseTerm ==
  /\ pc = "parseTerm"
  /\ LET t == parseTerm(line, lineNo)
     IN IF t.err # NoError
        THEN Throw(t.err)
        ELSE /\ pc' = "termReturned"
             /\ model' = [model EXCEPT !.objective.terms = <<Term(t)>>]
             /\ UNCHANGED <<current, objectiveParsed, err, solver>>
  /\ UNCHANGED <<lineNo, line>>

\* parseExpression(exprStr, lineNo)
CallParseExpression ==
  /\ pc = "parseExpression"
  /\ LET e == parseExpression(line, lineNo)
     IN IF e.err # NoError
        THEN Throw(e.err)
        ELSE /\ pc' = "expressionReturned"
             /\ model' = [model EXCEPT !.objective.terms = e.terms]
             /\ UNCHANGED <<current, objectiveParsed, err, solver>>
  /\ UNCHANGED <<lineNo, line>>

ReaderNext ==
  \/ CallParseTerm
  \/ CallParseExpression

ReaderSpec == ReaderInit /\ [][ReaderNext]_vars

\* ================================================================== claims
\* a step of the while loop that has read one more line (left in line')
LineRead == pc = "parsing" /\ lineNo' = lineNo + 1

\* a line that is neither skipped, nor a direction line, nor a section header
IsContent(l) == ~IsSkipped(l) /\ ~IsDirection(l) /\ ~IsHeader(l)

DirectionSet == model.type \in {"MAXIMIZE", "MINIMIZE"}

VarX == <<"x">>
VarY == <<"y">>

\* C1: once a direction line has been consumed and no objective parsed yet,
\* the next content line is parsed as the objective (operator empty, rhs 0,
\* its own line number) and the section becomes CONSTRAINTS.
C1_ObjectiveFollowsDirection ==
  [][(/\ LineRead
      /\ DirectionSet
      /\ model.objective.terms = <<>>
      /\ current = "NONE"
      /\ IsContent(line')
      /\ parseExpression(line', lineNo').err = NoError)
     => (/\ pc' = "parsing"
         /\ model'.objective =
              LinearExpression(parseExpression(line', lineNo').terms, 0, <<>>, lineNo')
         /\ current' = "CONSTRAINTS")]_vars

\* the relational operators of a line, read with the longest match: the
\* positions where "<=", ">=" or a "=" that is not the tail of one of them starts
OperatorsIn(l) ==
  {i \in 1..Len(l) :
     /\ OpAt(l, i) # <<>>
     /\ ~(l[i] = "=" /\ i > 1 /\ l[i - 1] \in {"<", ">"})}

TheOperator(l) == CHOOSE i \in OperatorsIn(l) : TRUE

\* C2: a constraint line '<expression> OP <number>' with exactly one
\* relational operator is recorded with operator OP, the terms of the text
\* left of OP and the number right of OP as rhs.
C2_ConstraintKeepsItsOperator ==
  [][(/\ LineRead
      /\ Len(model'.constraints) = Len(model.constraints) + 1
      /\ Cardinality(OperatorsIn(line')) = 1)
     => LET c == model'.constraints[Len(model'.constraints)]
            i == TheOperator(line')
            op == OpAt(line', i)
        IN /\ c.op = op
           /\ c.terms = parseExpression(SubSeq(line', 1, i - 1), lineNo').terms
           /\ c.rhs = stod(From(line', i + Len(op))).val]_vars

\* C3: after a successful parse every variable of the objective and of the
\* constraints has an entry in model.bounds, so the by-name column lookups of
\* loadModel never fail.
C3_ReferencedVariablesHaveBounds ==
  /\ pc = "returned" => AllColumnsFound(model)
  /\ pc # "load_thrown"

\* C4: a direction line sets the direction when no direction has been set
\* yet, and aborts with the duplicate-direction error when one was set.
C4_DirectionSetOnceOrDuplicate ==
  [][(LineRead /\ IsDirection(line'))
     => IF DirectionSet
        THEN pc' = "thrown" /\ err' = Thrown("Duplicate optimization type", lineNo')
        ELSE /\ pc' = "parsing"
             /\ model'.type = (IF line' = LMax THEN "MAXIMIZE" ELSE "MINIMIZE")]_vars

\* C5: a successful parse that yields an objective has consumed a direction
\* line; an objective without a direction line is not accepted.
C5_ObjectiveNeedsDirection ==
  (pc = "returned" /\ model.objective.terms # <<>>) => DirectionSet

\* a numeric literal starts (after whitespace) at position i of l
NumberAt(l, i) ==
  LET q == SkipOpt(l, SkipWhile(l, i, RegexWs), Sign)
  IN /\ q <= Len(l)
     /\ \/ l[q] \in Digit
        \/ l[q] = "." /\ q + 1 <= Len(l) /\ l[q + 1] \in Digit

\* C6: in CONSTRAINTS a line with two comparison operators, or with an
\* operator and no numeric literal to its right, aborts the parse with an
\* error that carries the line's 1-based number; it is never accepted.
C6_MalformedConstraintRejected ==
  [][(/\ LineRead
      /\ objectiveParsed
      /\ current = "CONSTRAINTS"
      /\ IsContent(line')
      /\ \/ Cardinality(OperatorsIn(line')) >= 2
         \/ /\ Cardinality(OperatorsIn(line')) = 1
            /\ ~NumberAt(line', TheOperator(line')
                                  + Len(OpAt(line', TheOperator(line')))))
     => (pc' = "thrown" /\ err'.line = lineNo')]_vars

\* '<v> free': an identifier, whitespace, the word free
FreeShape(l) ==
  LET p == SkipWhile(l, 1, IdentChar)
  IN /\ p > 1
     /\ l[1] \in IdentStart
     /\ SkipWhile(l, p, RegexWs) > p
     /\ From(l, SkipWhile(l, p, RegexWs)) = FreeWord

\* the bounds mapping C7 describes after the Bounds line l: only the named
\* field of v changes, v starts from the defaults if absent
C7_Expected(bounds, l) ==
  LET v == SubSeq(l, 1, SkipWhile(l, 1, IdentChar) - 1)
      old == IF v \in DOMAIN bounds THEN bounds[v] ELSE DefaultBound
      op == OpAt(l, BoundOpPos(l))
      n == stod(From(l, BoundNumPos(l))).val
      new == IF FreeShape(l) THEN [old EXCEPT !.isFree = TRUE]
             ELSE IF op = <<">", "=">> THEN [old EXCEPT !.lower = n]
             ELSE IF op = <<"<", "=">> THEN [old EXCEPT !.upper = n]
             ELSE [old EXCEPT !.lower = n, !.upper = n]
  IN [w \in DOMAIN bounds \cup {v} |-> IF w = v THEN new ELSE bounds[w]]

\* C7: in BOUNDS '<v> >= n' changes only v.lower, '<v> <= n' only v.upper,
\* '<v> = n' both, '<v> free' only v.isFree; v's record is created with the
\* defaults if absent and every other record is left unchanged.
C7_BoundLineChangesOnlyItsField ==
  [][(/\ LineRead
      /\ objectiveParsed
      /\ current = "BOUNDS"
      /\ IsContent(line')
      /\ FreeShape(line') \/ BoundMatches(line'))
     => (/\ pc' = "parsing"
         /\ model'.bounds = C7_Expected(model.bounds, line'))]_vars

\* the non-empty comma-separated names of a line, each trimmed
CommaFree(l, i, j) == \A k \in i..j : l[k] # ","

NamesOf(l) ==
  {trim(SubSeq(l, p[1], p[2])) :
     p \in {q \in (1..Len(l)) \X (1..Len(l)) :
              /\ q[1] <= q[2]
              /\ CommaFree(l, q[1], q[2])
              /\ q[1] = 1 \/ l[q[1] - 1] = ","
              /\ q[2] = Len(l) \/ l[q[2] + 1] = ","}} \ {<<>>}

\* C8: right after a line of the BINARY section every name on it has kind
\* BINARY, lower 0 and upper 1, whatever was recorded before; after a line
\* of the INTEGER section every name on it has kind INTEGER.
C8_TypeLineSetsKind ==
  [][(/\ LineRead
      /\ objectiveParsed
      /\ current \in {"INTEGERS", "BINARIES"}
      /\ IsContent(line'))
     => (/\ pc' = "parsing"
         /\ \A n \in NamesOf(line') :
              /\ n \in DOMAIN model'.bounds
              /\ IF current = "BINARIES"
                 THEN /\ model'.bounds[n].type = "BINARY"
                      /\ model'.bounds[n].lower = Num(0)
                      /\ model'.bounds[n].upper = Num(1)
                 ELSE model'.bounds[n].type = "INTEGER")]_vars

\* the Binary line "x, y" has just been processed and x, declared free by an
\* earlier Bounds line, is now BINARY with bounds 0 and 1
C8_Witness ==
  /\ pc = "parsing"
  /\ current = "BINARIES"
  /\ line = LNames
  /\ VarX \in DOMAIN model.bounds
  /\ model.bounds[VarX] =
       [lower |-> Num(0), upper |-> Num(1), isFree |-> TRUE, type |-> "BINARY"]

\* C9: in every reachable model every variable of kind BINARY has lower 0
\* and upper 1.
C9_BinaryHasUnitBounds ==
  \A v \in DOMAIN model.bounds :
    model.bounds[v].type = "BINARY"
      => model.bounds[v].lower = Num(0) /\ model.bounds[v].upper = Num(1)

\* C10 as stated: once a record exists no later line lowers its lower bound,
\* raises its upper bound or resets a field to its default.
C10_BoundsOnlyNarrow ==
  [][pc' # "thrown"
     => \A v \in DOMAIN model.bounds :
          /\ v \in DOMAIN model'.bounds
          /\ model'.bounds[v].lower >= model.bounds[v].lower
          /\ model'.bounds[v].upper <= model.bounds[v].upper
          /\ model.bounds[v].type # "CONTINUOUS" => model'.bounds[v].type # "CONTINUOUS"]_vars

\* C10 amended: once a record exists it stays, and no later line resets a
\* field to its default: a finite lower or upper stays finite, a kind other
\* than CONTINUOUS stays other than CONTINUOUS, isFree stays set.  (A later
\* line may still overwrite lower or upper with any finite value.)
C10_FieldsNeverResetToDefault ==
  [][pc' # "thrown"
     => \A v \in DOMAIN model.bounds :
          /\ v \in DOMAIN model'.bounds
          /\ model.bounds[v].lower # 0 - INFINITY => model'.bounds[v].lower # 0 - INFINITY
          /\ model.bounds[v].upper # INFINITY => model'.bounds[v].upper # INFINITY
          /\ model.bounds[v].type # "CONTINUOUS" => model'.bounds[v].type # "CONTINUOUS"
          /\ model.bounds[v].isFree => model'.bounds[v].isFree]_vars

\* y was fixed to 5 and a later line "y >= 2" overwrote its lower bound
C10_Witness ==
  /\ pc = "parsing"
  /\ line = LLower
  /\ VarY \in DOMAIN model.bounds
  /\ model.bounds[VarY].lower = Num(2)
  /\ model.bounds[VarY].upper = Num(5)

\* C11: in BOUNDS a content line that is neither '<var> free' nor
\* '<var> (>=|<=|=) <number>' aborts the parse with the bound format error
\* of its line, so that no Bound record is created or modified by it.
C11_OtherBoundLinesRejected ==
  [][(/\ LineRead
      /\ objectiveParsed
      /\ current = "BOUNDS"
      /\ IsContent(line')
      /\ ~FreeShape(line')
      /\ ~BoundMatches(line'))
     => (/\ pc' = "thrown"
         /\ err' = Thrown("Invalid bound format", lineNo'))]_vars

\* the section a header line switches to
SectionOf(l) ==
  IF l = BoundsHeader THEN "BOUNDS"
  ELSE IF l = IntegerHeader THEN "INTEGERS"
  ELSE "BINARIES"

\* C12: once the objective has been parsed, a line equal to 'Bounds:',
\* 'Integer:' or 'Binary:' is accepted in whatever section it arrives
\* (any order, any number of times); it only switches the current section
\* and leaves the model unchanged, and no accepted line removes a Bound
\* record made earlier, so a re-entered section adds to its earlier records.
C12_HeaderOnlySwitchesSection ==
  [][/\ (/\ LineRead
          /\ model.objective.terms # <<>>
          /\ IsHeader(line'))
         => (/\ pc' = "parsing"
             /\ current' = SectionOf(line')
             /\ model' = model
             /\ objectiveParsed' = objectiveParsed)
     /\ (LineRead /\ pc' = "parsing")
         => DOMAIN model.bounds \subseteq DOMAIN model'.bounds]_vars

\* 'Bounds:' has just been read again: the objective is parsed, the section
\* is BOUNDS, and the record that 'x free' made in the earlier visit of the
\* section is still there
C12_Witness ==
  /\ pc = "parsing"
  /\ line = BoundsHeader
  /\ current = "BOUNDS"
  /\ model.objective.terms # <<>>
  /\ VarX \in DOMAIN model.bounds
  /\ model.bounds[VarX].isFree

\* C13: every error raised while a line is processed (lineNo >= 1: a line
\* has been read, which leaves out the failure to open the file) carries the
\* 1-based number of that line, also when a right-hand side or a coefficient
\* is not a number; the error ends the parse (no step follows a thrown
\* state).
C13_ErrorsCarryLineNumber ==
  (pc = "thrown" /\ lineNo >= 1) => (/\ err.line = lineNo
                                     /\ ~ENABLED Next)

\* C14: a blank line and a line that starts, after trimming, with '//' are
\* skipped in every parser state: section, flags, model and error are left
\* as they were and only the line counter advances.
C14_SkippedLinesOnlyCount ==
  [][(LineRead /\ (isBlank(line') \/ StartsWith(line', <<"/", "/">>)))
     => (/\ lineNo' = lineNo + 1
         /\ UNCHANGED <<current, objectiveParsed, model, pc, err, solver>>)]_vars

\* a blank line has just been skipped inside the Binary section, after
\* records were made
C14_Witness ==
  /\ pc = "parsing"
  /\ line = <<>>
  /\ lineNo > 1
  /\ current = "BINARIES"
  /\ model.bounds # <<>>

\* C15: parseExpression is insensitive to whitespace inside a term: a sign,
\* a coefficient and an identifier written with spaces between them ('3 x',
\* '- 3 x') give the term list of the same text without the spaces ('3x',
\* '-3x').
C15_SpacesInsideTermIgnored ==
  pc = "expressionReturned"
    => model.objective.terms = parseExpression(StripSpaces(line), lineNo).terms

\* ten times the number a coefficient text of TermCoefficients writes
CoefficientTenths(c) ==
  IF c = <<"3">> THEN 30
  ELSE IF c = <<"1", "0">> THEN 100
  ELSE IF c = <<"2", ".", "5">> THEN 25
  ELSE IF c = <<".", "5">> THEN 5
  ELSE IF c = <<"3", ".">> THEN 30
  ELSE 0

\* the coefficient a term written as sign s and coefficient text c stands for
WrittenCoefficient(s, c) ==
  LET magnitude == IF c = <<>> THEN Num(1) ELSE Num(CoefficientTenths(c)) \div 10
  IN IF s = <<"-">> THEN 0 - magnitude ELSE magnitude

\* the coefficient texts that are numbers: <<".">> has no digit
NumericCoefficients == TermCoefficients \ {<<>>, <<".">>}

\* C16: for a token made of an optional sign, an optional numeric
\* coefficient and an identifier, parseTerm returns that identifier with the
\* written signed number, 1 without coefficient (also after '+'), -1 after a
\* bare '-'; any other token fails with the term format error of its line.
C16_TermReaderRecoversTerm ==
  [][pc = "parseTerm"
     => IF \E s \in TermSigns, c \in NumericCoefficients \cup {<<>>},
              i \in TermIdentifiers \ {<<>>} : line = s \o c \o i
        THEN \A s \in TermSigns, c \in NumericCoefficients \cup {<<>>},
                i \in TermIdentifiers \ {<<>>} :
               line = s \o c \o i
                 => (/\ pc' = "termReturned"
                     /\ model'.objective.terms =
                          <<[coefficient |-> WrittenCoefficient(s, c), variable |-> i]>>)
        ELSE (/\ pc' = "thrown"
              /\ err' = Thrown("Invalid term format", lineNo))]_vars

\* no term can be extracted from s: it has no character an identifier
\* could start with
NoIdentifierIn(s) == \A k \in 1..Len(s) : s[k] \notin IdentStart

\* C17: a line handed to the expression reader, as the objective or as a
\* constraint, from which no term can be extracted aborts the parse with a
\* format error of its line; the reader never returns an empty term list,
\* so an objective it sets and every stored constraint has at least one term.
C17_NoEmptyTermList ==
  [][/\ (/\ LineRead
          /\ ~objectiveParsed
          /\ ~IsSkipped(line')
          /\ ~IsDirection(line')
          /\ NoIdentifierIn(line'))
         => (/\ pc' = "thrown"
             /\ err' = Thrown("No valid terms found in expression", lineNo'))
     /\ (/\ LineRead
          /\ objectiveParsed
          /\ current = "CONSTRAINTS"
          /\ IsContent(line')
          /\ NoIdentifierIn(line'))
         => (/\ pc' = "thrown"
             /\ err'.kind \in {"No valid terms found in expression",
                               "Invalid constraint format"}
             /\ err'.line = lineNo')
     /\ (LineRead /\ pc' = "parsing" /\ model'.objective # model.objective)
         => model'.objective.terms # <<>>
     /\ \A i \in DOMAIN model'.constraints :
          model'.constraints[i].terms # <<>>]_vars

\* the line "10 <= 5", which holds no term, was handed to the expression
\* reader after an earlier line and has just aborted the parse
C17_Witness ==
  /\ pc = "thrown"
  /\ line = LNoTerms
  /\ lineNo > 1
  /\ err = Thrown("No valid terms found in expression", lineNo)

\* C18: every model parseFile returns is complete: its objective has at
\* least one term and its direction was assigned from a Max or Min line.
C18_ReturnedModelComplete ==
  pc = "returned" => (model.objective.terms # <<>> /\ DirectionSet)

\* the sections a header line opens
HeaderSections == {"BOUNDS", "INTEGERS", "BINARIES"}

\* C19: the constraint list changes only by one appended constraint, and
\* only while the section is CONSTRAINTS; CONSTRAINTS is never re-entered:
\* once a Bounds:, Integer: or Binary: header has been processed the parse
\* stays in those sections and no later line changes the constraint list
\* or the objective.
C19_ConstraintsOnlyBeforeHeaders ==
  [][/\ (LineRead /\ pc' = "parsing" /\ model'.constraints # model.constraints)
         => (/\ current = "CONSTRAINTS"
             /\ Len(model'.constraints) = Len(model.constraints) + 1
             /\ SubSeq(model'.constraints, 1, Len(model.constraints))
                  = model.constraints)
     /\ (LineRead /\ pc' = "parsing" /\ current \in HeaderSections)
         => (/\ current' \in HeaderSections
             /\ model'.constraints = model.constraints
             /\ model'.objective = model.objective)
     /\ (LineRead /\ current # "CONSTRAINTS" /\ current' = "CONSTRAINTS")
         => (current = "NONE" /\ model.constraints = <<>>)]_vars

\* after the objective, a constraint and 'Bounds:', the line "y >= 2" was
\* taken as a bound: the constraint list still holds its one constraint
C19_Witness ==
  /\ pc = "parsing"
  /\ current = "BOUNDS"
  /\ line = LLower
  /\ Len(model.constraints) = 1
  /\ VarY \in DOMAIN model.bounds
  /\ model.bounds[VarY].lower = Num(2)

\* [a-zA-Z_][a-zA-Z0-9_]*
IsIdentifier(v) ==
  /\ v # <<>>
  /\ v[1] \in IdentStart
  /\ \A k \in 2..Len(v) : v[k] \in IdentChar

\* C20: every key of model.bounds is a non-empty identifier; no Bounds,
\* Integer or Binary line creates a record under an empty or non-identifier
\* name.
C20_BoundKeysAreIdentifiers ==
  \A v \in DOMAIN model.bounds : IsIdentifier(v)

====
